---------------------------- MODULE Spec2Model ----------------------------
(***************************************************************************)
(* Model of CanvasEditor (src/app/home/canvas-editor.ts): a multi-page      *)
(* annotation editor on a Konva stage.  Each public method and each stage   *)
(* event handler is one operator on the editor state (a record holding the  *)
(* object's fields and the scene graph it owns) and one action.             *)
(*                                                                         *)
(* Units.  Zoom factors and stage sizes are kept in tenths (currentZoom =   *)
(* 10 is the factor 1, stage.width = 6120 is 612 px), so that the 0.1 step  *)
(* of zoomIn/zoomOut is the integer 1.  A node's x and y are IEEE doubles   *)
(* that the rotation code moves off the integer grid; they are kept as a    *)
(* pair [i, f] standing for i + f * 2^-68, with the rounding of every       *)
(* floating-point operation of transformShapesBetweenOrientations modelled  *)
(* by RoundD.                                                               *)
(*                                                                         *)
(* Konva's own dragging of a finished rectangle (draggable: true) runs no   *)
(* code of the editor and is not part of the model.                         *)
(*                                                                         *)
(* The upload flow of the host (src/app/home/home.component.ts) and the     *)
(* rotation of the earlier group-based revision of the class                *)
(* (src/unnamed/part_001) are modelled in sections of their own.            *)
(***************************************************************************)
EXTENDS Integers, Sequences, FiniteSets, TLC

VARIABLES pages, pageOrientations, currentPageIndex, currentZoom,
          isDrawing, drawStartPos, newRect, selectedRect, stage,
          currentPageIndexSubject, pageCountSubject, nodes, loads, exports,
          resolved, uploads, groupEditor

vars == <<pages, pageOrientations, currentPageIndex, currentZoom,
          isDrawing, drawStartPos, newRect, selectedRect, stage,
          currentPageIndexSubject, pageCountSubject, nodes, loads, exports,
          resolved, uploads, groupEditor>>

---------------------------------------------------------------------------
(* Bounds of the exploration.  A specification explores the editor within   *)
(* a record b of bounds: pages, nodes, loads and exports are counts, turns  *)
(* and lefts the quarter turns to the right and to the left of upright,     *)
(* zooms the zoom factors visited, factors the arguments given to zoom,      *)
(* longEdges those given to toPngs, images the natural sizes of the images  *)
(* given to addImg, pts the page-local points the pointer is put on, files   *)
(* the files picked for one upload and pdfPages the pages of a PDF.          *)

\* pages that addPage may create
MaxPages == 2
\* Konva nodes (rectangles and images) that may be created
MaxNodes == 2
\* image decodes that may be pending at one time
MaxLoads == 1
\* toPngs calls that may be in flight at one time
MaxExports == 1
\* quarter turns to the right of upright a page and the rotation attribute of
\* its children may be
MaxTurns == 1

\* files that may be picked for one upload
MaxFiles == 2
\* pages a picked PDF may have
MaxPdfPages == 2

\* client sizes of the container the group-rotation variant is created in
ContainerSizes == {<<800, 600>>}
\* the options given to its addPage: none, or a width and a height
PageOptions == {<<>>, <<612, 792>>}

\* natural sizes of the images that are loaded
ImageSizes == {<<1200, 800>>}
\* wide, tall and square images whose fitted size is a whole number of pixels
\* before rounding; 145 / 612 and 35 / 612 round up and down
FitSizes == ImageSizes \cup {<<800, 1200>>, <<145, 145>>, <<35, 35>>}
\* arguments of toPngs(longEdge)
LongEdges == {-1, 0, 3000}

\* quarter turns to the right explored on the single page of SpecTurns
PageTurns == 2

\* pages, drawing, images and zoom, on two pointer positions
Bounds == [pages |-> MaxPages, nodes |-> MaxNodes, loads |-> MaxLoads,
           exports |-> MaxExports, turns |-> MaxTurns, lefts |-> 0,
           zooms |-> {10, 11}, factors |-> {-10, 0, 11},
           longEdges |-> LongEdges, images |-> ImageSizes,
           pts |-> {<<100, 200>>, <<300, 300>>},
           files |-> MaxFiles, pdfPages |-> MaxPdfPages]

\* every operation, on one pointer position and one export size
AllBounds == [Bounds EXCEPT !.pts = {<<100, 200>>}, !.longEdges = {3000}]

\* pages turned to every orientation and zoomed down to 0.1
ViewBounds == [Bounds EXCEPT !.lefts = MaxTurns, !.turns = PageTurns,
                             !.zooms = {1, 10, 11}, !.factors = {-10, 0, 1, 11}]

\* pages, rotation and zoom with images of every shape
ImageBounds == [Bounds EXCEPT !.images = FitSizes]

\* one page, drawn on and turned: the rotation of <<100, 100>> and that of
\* the corner <<0, 192>> of a fitted 1200 x 800 image are inexact in doubles
TurnBounds == [Bounds EXCEPT !.turns = PageTurns, !.pts = {<<100, 100>>}]

---------------------------------------------------------------------------
(* Program constants *)

baseWidth == 612
baseHeight == 792
\* zoomIn/zoomOut step 0.1, in tenths
ZoomStep == 1
\* the factor 1 of the constructor and of resetZoom, in tenths
ZoomOne == 10

\* null for a node reference; NoPos is a null position, Unsettled no promise result
Null == 0
NoPos == <<>>
Unsettled == <<>>
Orientation == {0, 90, 180, 270}

Min(a, b) == IF a <= b THEN a ELSE b
Abs(a) == IF a < 0 THEN -a ELSE a
Range(s) == {s[k] : k \in DOMAIN s}
Remove(s, e) == SelectSeq(s, LAMBDA v : v # e)

---------------------------------------------------------------------------
(* IEEE-754 doubles near the integer grid.  A value is [i |-> n, f |-> d],  *)
(* the real number n + d * 2^-68 with |d * 2^-68| far below 1/2.  A         *)
(* quotient of two small integers, which is not near the grid, is kept as   *)
(* the fraction it rounds and the rounding error (FDiv).                    *)

\* 2^-68 is the unit of f
QExp == 68
\* Math.cos(Math.PI / 2) = 6.123233995736766e-17, in units of 2^-68
CosHalfPi == 18073

D(n) == [i |-> n, f |-> 0]

RECURSIVE ILog2(_)
ILog2(n) == IF n < 2 THEN 0 ELSE 1 + ILog2(n \div 2)

\* the double nearest to v.i + v.f * 2^-68 (round to nearest, ties to even)
RoundD(v) ==
    IF v.i = 0 THEN v
    ELSE LET a  == Abs(v.i)
             e0 == ILog2(a)
             e  == IF a = 2^e0 /\ v.f # 0 /\ ((v.i > 0) # (v.f > 0))
                   THEN e0 - 1 ELSE e0
             U  == 2^(e + QExp - 52)
             k  == v.f \div U
             r  == v.f - k * U
             kk == IF 2 * r < U THEN k
                   ELSE IF 2 * r > U THEN k + 1
                   ELSE IF k % 2 = 0 THEN k ELSE k + 1
         IN  [i |-> v.i, f |-> kk * U]

\* p / d rounded to the nearest integer, ties to even (d > 0)
RoundDiv(p, d) ==
    LET k == p \div d
        r == p - k * d
    IN  IF 2 * r < d THEN k
        ELSE IF 2 * r > d THEN k + 1
        ELSE IF k % 2 = 0 THEN k ELSE k + 1

\* the binary exponent of a / b: 2^e <= a / b < 2^(e + 1), for a, b > 0
RECURSIVE ExpOfRatio(_, _)
ExpOfRatio(a, b) ==
    IF a >= 2 * b THEN 1 + ExpOfRatio(a, 2 * b)
    ELSE IF a < b THEN ExpOfRatio(2 * a, b) - 1
    ELSE 0

\* (a * 2^k) % b
RECURSIVE ModPow2(_, _, _)
ModPow2(a, k, b) == IF k = 0 THEN a % b ELSE (2 * ModPow2(a, k - 1, b)) % b

\* the double a / b for integers a, b > 0: with e its exponent and k = 52 - e
\* it is (a * 2^k + c) / (b * 2^k), the 53-bit quotient a * 2^k / b rounded to
\* the nearest integer, ties to even
FDiv(a, b) ==
    LET e == ExpOfRatio(a, b)
        k == 52 - e
        r == ModPow2(a, k, b)
        c == IF r = 0 THEN 0
             ELSE IF 2 * r < b THEN -r
             ELSE IF 2 * r > b THEN b - r
             ELSE IF 2 * ModPow2(a, k - 1, b) >= b THEN b - r ELSE -r
    IN  [num |-> a, den |-> b, e |-> e, c |-> c]

\* the double n * q for an integer n > 0 and a quotient q = FDiv(a, b) with
\* n * a / b = m an integer: the exact product m + n * c / (b * 2^k) rounded
\* to the grid of doubles around m
FMulInt(n, q) ==
    LET m  == (n * q.num) \div q.den
        e0 == ILog2(m)
        em == IF m = 2^e0 /\ q.c < 0 THEN e0 - 1 ELSE e0
        j  == em - q.e
        kk == IF j >= 0 THEN RoundDiv(n * q.c, q.den * 2^j)
              ELSE RoundDiv(n * q.c * 2^(0 - j), q.den)
    IN  [i |-> m, f |-> kk * 2^(em + QExp - 52)]

\* v / 2 for a v whose two parts are even
FHalf(v) == [i |-> v.i \div 2, f |-> v.f \div 2]

FAdd(a, b) == RoundD([i |-> a.i + b.i, f |-> a.f + b.f])
FSub(a, b) == RoundD([i |-> a.i - b.i, f |-> a.f - b.f])
FNeg(a) == [i |-> -a.i, f |-> -a.f]
\* a * Math.cos(+-pi/2): the product is below 2^-44 and keeps 53 bits
FMulCosHalfPi(a) == [i |-> 0, f |-> a.i * CosHalfPi]

\* a * Math.cos(rad) and a * Math.sin(rad) for rad = (Math.PI / 180) * delta:
\* cos(+-pi/2) = 6.1e-17, sin(+-pi/2) = +-1, cos(+-pi) = -1, sin(+-pi) = +-1.2e-16
FMulCos(a, delta) ==
    IF delta = 0 THEN a
    ELSE IF Abs(delta) = 90 THEN FMulCosHalfPi(a)
    ELSE FNeg(a)

FMulSin(a, delta) ==
    IF delta = 0 THEN [i |-> 0, f |-> 0]
    ELSE IF delta = 90 THEN a
    ELSE IF delta = -90 THEN FNeg(a)
    ELSE IF delta = 180 THEN [i |-> 0, f |-> 2 * a.i * CosHalfPi]
    ELSE [i |-> 0, f |-> -2 * a.i * CosHalfPi]

---------------------------------------------------------------------------
(* The editor state.  A layer is [children, visible]; a node is a Konva.Rect *)
(* or Konva.Image, named by its index in nodes (a destroyed node keeps its   *)
(* attributes and is in no layer).  emitted lists the values the call in     *)
(* progress has passed to next() of the two subjects so far.  uploads holds  *)
(* the onFileChange calls of the host (home.component.ts) that wait for a    *)
(* PDF to be converted, each as the files it has still to go through.       *)

S == [pages |-> pages, pageOrientations |-> pageOrientations,
      currentPageIndex |-> currentPageIndex, currentZoom |-> currentZoom,
      isDrawing |-> isDrawing, drawStartPos |-> drawStartPos,
      newRect |-> newRect, selectedRect |-> selectedRect, stage |-> stage,
      currentPageIndexSubject |-> currentPageIndexSubject,
      pageCountSubject |-> pageCountSubject, nodes |-> nodes,
      loads |-> loads, exports |-> exports, resolved |-> resolved,
      uploads |-> uploads, emitted |-> <<>>]

Becomes(t) ==
    /\ pages' = t.pages
    /\ pageOrientations' = t.pageOrientations
    /\ currentPageIndex' = t.currentPageIndex
    /\ currentZoom' = t.currentZoom
    /\ isDrawing' = t.isDrawing
    /\ drawStartPos' = t.drawStartPos
    /\ newRect' = t.newRect
    /\ selectedRect' = t.selectedRect
    /\ stage' = t.stage
    /\ currentPageIndexSubject' = t.currentPageIndexSubject
    /\ pageCountSubject' = t.pageCountSubject
    /\ nodes' = t.nodes
    /\ loads' = t.loads
    /\ exports' = t.exports
    /\ resolved' = t.resolved
    /\ uploads' = t.uploads
    /\ UNCHANGED groupEditor

\* fields and constructor
Init ==
    /\ pages = <<>>
    /\ pageOrientations = <<>>
    /\ currentPageIndex = -1
    /\ currentZoom = ZoomOne
    /\ isDrawing = FALSE
    /\ drawStartPos = NoPos
    /\ newRect = Null
    /\ selectedRect = Null
    /\ stage = [width |-> baseWidth * ZoomOne, height |-> baseHeight * ZoomOne,
                scale |-> ZoomOne]
    /\ currentPageIndexSubject = -1
    /\ pageCountSubject = 0
    /\ nodes = <<>>
    /\ loads = <<>>
    /\ exports = <<>>
    /\ resolved = Unsettled
    /\ uploads = <<>>
    /\ \E size \in ContainerSizes :
           groupEditor = [pages |-> <<>>, currentPageIndex |-> -1,
                          baseDimensions |-> [width |-> size[1], height |-> size[2]],
                          stage |-> [width |-> size[1], height |-> size[2]]]

\* pages[k] and pageOrientations[k] of the code are at k + 1 here
Layer(s, k) == s.pages[k + 1]
OrientationOf(s, k) == s.pageOrientations[k + 1]

\* subject.next(value)
Emit(s, subject, value) == [s EXCEPT !.emitted = Append(@, <<subject, value>>)]

Hide(s, k) == [s EXCEPT !.pages[k + 1].visible = FALSE]
Show(s, k) == [s EXCEPT !.pages[k + 1].visible = TRUE]

\* the page frame for an orientation: width and height swap at 90 and 270
PageW(o) == IF o = 90 \/ o = 270 THEN baseHeight ELSE baseWidth
PageH(o) == IF o = 90 \/ o = 270 THEN baseWidth ELSE baseHeight

\* applyPageOrientation that swaps width and height at 90 only
applyPageOrientationAt90(s, pageIndex) ==
    LET orientation == OrientationOf(s, pageIndex)
        landscape   == orientation = 90
    IN  [s EXCEPT !.stage.width = (IF landscape THEN baseHeight ELSE baseWidth)
                                      * s.currentZoom,
                  !.stage.height = (IF landscape THEN baseWidth ELSE baseHeight)
                                      * s.currentZoom]

applyPageOrientation(s, pageIndex) ==
    LET orientation == OrientationOf(s, pageIndex)
    IN  [s EXCEPT !.stage.width = PageW(orientation) * s.currentZoom,
                  !.stage.height = PageH(orientation) * s.currentZoom]

\* addPage that starts the new page in the orientation of the page it leaves
addPageCopiesOrientation(s) ==
    LET s1 == IF s.currentPageIndex >= 0 THEN Hide(s, s.currentPageIndex) ELSE s
        n  == Len(s.pages) + 1
        o  == IF s.currentPageIndex >= 0 THEN OrientationOf(s, s.currentPageIndex) ELSE 0
        s2 == [s1 EXCEPT !.pages = Append(@, [children |-> <<>>, visible |-> TRUE]),
                         !.pageOrientations = Append(@, o),
                         !.currentPageIndex = n - 1,
                         !.currentPageIndexSubject = n - 1,
                         !.pageCountSubject = n]
    IN  Emit(Emit(s2, "currentPageIndex$", n - 1), "pageCount$", n)

\* addPage that leaves currentPageIndex where it was
addPageKeepsIndex(s) ==
    LET s1 == IF s.currentPageIndex >= 0 THEN Hide(s, s.currentPageIndex) ELSE s
        n  == Len(s.pages) + 1
    IN  [s1 EXCEPT !.pages = Append(@, [children |-> <<>>, visible |-> TRUE]),
                   !.pageOrientations = Append(@, 0),
                   !.pageCountSubject = n]

addPage(s) ==
    LET s1 == IF s.currentPageIndex >= 0 THEN Hide(s, s.currentPageIndex) ELSE s
        n  == Len(s.pages) + 1
        s2 == [s1 EXCEPT !.pages = Append(@, [children |-> <<>>, visible |-> TRUE]),
                         !.pageOrientations = Append(@, 0),
                         !.currentPageIndex = n - 1,
                         !.currentPageIndexSubject = n - 1,
                         !.pageCountSubject = n]
    IN  Emit(Emit(s2, "currentPageIndex$", n - 1), "pageCount$", n)

\* goToPage that leaves the layer of the page it comes from shown
goToPageKeepsShown(s, pageIndex) ==
    IF pageIndex < 0 \/ pageIndex >= Len(s.pages) THEN s
    ELSE LET s2 == [s EXCEPT !.currentPageIndex = pageIndex,
                             !.currentPageIndexSubject = pageIndex]
             s3 == Emit(s2, "currentPageIndex$", pageIndex)
         IN  applyPageOrientation(Show(s3, pageIndex), pageIndex)

\* goToPage that shows the page upright again
goToPageUpright(s, pageIndex) ==
    IF pageIndex < 0 \/ pageIndex >= Len(s.pages) THEN s
    ELSE LET s1 == IF s.currentPageIndex >= 0
                   THEN Hide(s, s.currentPageIndex) ELSE s
             s2 == [s1 EXCEPT !.currentPageIndex = pageIndex,
                              !.currentPageIndexSubject = pageIndex,
                              !.pageOrientations[pageIndex + 1] = 0]
             s3 == Emit(s2, "currentPageIndex$", pageIndex)
         IN  applyPageOrientation(Show(s3, pageIndex), pageIndex)

\* goToPage that does not announce the new index
goToPageSilent(s, pageIndex) ==
    IF pageIndex < 0 \/ pageIndex >= Len(s.pages) THEN s
    ELSE LET s1 == IF s.currentPageIndex >= 0
                   THEN Hide(s, s.currentPageIndex) ELSE s
             s2 == [s1 EXCEPT !.currentPageIndex = pageIndex]
         IN  applyPageOrientation(Show(s2, pageIndex), pageIndex)

\* goToPage that announces the index before it checks the range
goToPageEmitsFirst(s, pageIndex) ==
    LET s0 == Emit(s, "currentPageIndex$", pageIndex)
    IN  IF pageIndex < 0 \/ pageIndex >= Len(s.pages) THEN s0
        ELSE LET s1 == IF s.currentPageIndex >= 0
                       THEN Hide(s0, s.currentPageIndex) ELSE s0
                 s2 == [s1 EXCEPT !.currentPageIndex = pageIndex,
                                  !.currentPageIndexSubject = pageIndex]
             IN  applyPageOrientation(Show(s2, pageIndex), pageIndex)

goToPage(s, pageIndex) ==
    IF pageIndex < 0 \/ pageIndex >= Len(s.pages) THEN s
    ELSE LET s1 == IF s.currentPageIndex >= 0
                   THEN Hide(s, s.currentPageIndex) ELSE s
             s2 == [s1 EXCEPT !.currentPageIndex = pageIndex,
                              !.currentPageIndexSubject = pageIndex]
             s3 == Emit(s2, "currentPageIndex$", pageIndex)
         IN  applyPageOrientation(Show(s3, pageIndex), pageIndex)

\* nextPage that wraps round to the first page after the last
nextPageWraps(s) ==
    IF s.currentPageIndex < Len(s.pages) - 1
    THEN goToPage(s, s.currentPageIndex + 1) ELSE goToPage(s, 0)

nextPage(s) ==
    IF s.currentPageIndex < Len(s.pages) - 1
    THEN goToPage(s, s.currentPageIndex + 1) ELSE s

prevPage(s) ==
    IF s.currentPageIndex > 0
    THEN goToPage(s, s.currentPageIndex - 1) ELSE s

rotateOrientationLeft(o) ==
    CASE o = 0 -> 270 [] o = 90 -> 0 [] o = 180 -> 90 [] o = 270 -> 180

rotateOrientationRight(o) ==
    CASE o = 0 -> 90 [] o = 90 -> 180 [] o = 180 -> 270 [] o = 270 -> 0

getAngleDelta(oldO, newO) ==
    LET numOld == oldO \div 90
        numNew == newO \div 90
        diff   == (numNew - numOld) * 90
        d1     == IF diff > 180 THEN diff - 360 ELSE diff
    IN  IF d1 < -180 THEN d1 + 360 ELSE d1

\* the forEach body with a sign slip in newDx (dx * cos + dy * sin)
TransformShapeSignSlip(nd, oldO, newO) ==
    LET angleDelta == getAngleDelta(oldO, newO)
        oldCenter  == [x |-> D(PageW(oldO) \div 2), y |-> D(PageH(oldO) \div 2)]
        newCenter  == [x |-> D(PageW(newO) \div 2), y |-> D(PageH(newO) \div 2)]
        dx    == FSub(nd.x, oldCenter.x)
        dy    == FSub(nd.y, oldCenter.y)
        newDx == FAdd(FMulCos(dx, angleDelta), FMulSin(dy, angleDelta))
        newDy == FAdd(FMulSin(dx, angleDelta), FMulCos(dy, angleDelta))
    IN  [nd EXCEPT !.x = FAdd(newCenter.x, newDx),
                   !.y = FAdd(newCenter.y, newDy),
                   !.rotation = @ + angleDelta]

\* the forEach body setting the rotation to the delta instead of adding it
TransformShapeSetsRotation(nd, oldO, newO) ==
    LET angleDelta == getAngleDelta(oldO, newO)
        oldCenter  == [x |-> D(PageW(oldO) \div 2), y |-> D(PageH(oldO) \div 2)]
        newCenter  == [x |-> D(PageW(newO) \div 2), y |-> D(PageH(newO) \div 2)]
        dx    == FSub(nd.x, oldCenter.x)
        dy    == FSub(nd.y, oldCenter.y)
        newDx == FSub(FMulCos(dx, angleDelta), FMulSin(dy, angleDelta))
        newDy == FAdd(FMulSin(dx, angleDelta), FMulCos(dy, angleDelta))
    IN  [nd EXCEPT !.x = FAdd(newCenter.x, newDx),
                   !.y = FAdd(newCenter.y, newDy),
                   !.rotation = angleDelta]

\* the forEach body: one child moved from the old frame to the new one
TransformShape(nd, oldO, newO) ==
    LET angleDelta == getAngleDelta(oldO, newO)
        oldCenter  == [x |-> D(PageW(oldO) \div 2), y |-> D(PageH(oldO) \div 2)]
        newCenter  == [x |-> D(PageW(newO) \div 2), y |-> D(PageH(newO) \div 2)]
        dx    == FSub(nd.x, oldCenter.x)
        dy    == FSub(nd.y, oldCenter.y)
        newDx == FSub(FMulCos(dx, angleDelta), FMulSin(dy, angleDelta))
        newDy == FAdd(FMulSin(dx, angleDelta), FMulCos(dy, angleDelta))
    IN  [nd EXCEPT !.x = FAdd(newCenter.x, newDx),
                   !.y = FAdd(newCenter.y, newDy),
                   !.rotation = @ + angleDelta]

\* transformShapesBetweenOrientations that remaps the children of every layer
transformShapesOfEveryLayer(s, layerIndex, oldOrientation, newOrientation) ==
    IF oldOrientation = newOrientation THEN s
    ELSE LET kids == UNION {Range(s.pages[k].children) : k \in DOMAIN s.pages}
         IN  [s EXCEPT !.nodes =
                 [n \in DOMAIN s.nodes |->
                     IF n \in kids
                     THEN TransformShape(s.nodes[n], oldOrientation, newOrientation)
                     ELSE s.nodes[n]]]

transformShapesBetweenOrientations(s, layerIndex, oldOrientation, newOrientation) ==
    IF oldOrientation = newOrientation THEN s
    ELSE LET kids == Range(Layer(s, layerIndex).children)
         IN  [s EXCEPT !.nodes =
                 [n \in DOMAIN s.nodes |->
                     IF n \in kids
                     THEN TransformShape(s.nodes[n], oldOrientation, newOrientation)
                     ELSE s.nodes[n]]]

rotateLeft(s) ==
    IF s.currentPageIndex < 0 THEN s
    ELSE LET oldO == OrientationOf(s, s.currentPageIndex)
             newO == rotateOrientationLeft(oldO)
             s1   == [s EXCEPT !.pageOrientations[s.currentPageIndex + 1] = newO]
             s2   == transformShapesBetweenOrientations(s1, s.currentPageIndex, oldO, newO)
         IN  applyPageOrientation(s2, s.currentPageIndex)

rotateRight(s) ==
    IF s.currentPageIndex < 0 THEN s
    ELSE LET oldO == OrientationOf(s, s.currentPageIndex)
             newO == rotateOrientationRight(oldO)
             s1   == [s EXCEPT !.pageOrientations[s.currentPageIndex + 1] = newO]
             s2   == transformShapesBetweenOrientations(s1, s.currentPageIndex, oldO, newO)
         IN  applyPageOrientation(s2, s.currentPageIndex)

---------------------------------------------------------------------------
(* Zoom *)

\* zoom that turns away negative factors only
zoomAcceptsZero(s, factor) ==
    IF factor < 0 THEN s
    ELSE LET s1 == [s EXCEPT !.currentZoom = factor, !.stage.scale = factor]
         IN  IF s1.currentPageIndex >= 0
             THEN applyPageOrientation(s1, s1.currentPageIndex) ELSE s1

zoom(s, factor) ==
    IF factor <= 0 THEN s
    ELSE LET s1 == [s EXCEPT !.currentZoom = factor, !.stage.scale = factor]
         IN  IF s1.currentPageIndex >= 0
             THEN applyPageOrientation(s1, s1.currentPageIndex) ELSE s1

zoomIn(s) == zoom(s, s.currentZoom + ZoomStep)

zoomOut(s) ==
    LET newZoom == s.currentZoom - ZoomStep
    IN  IF newZoom > 0 THEN zoom(s, newZoom) ELSE s

resetZoom(s) == zoom(s, ZoomOne)

---------------------------------------------------------------------------
(* Images.  addImg captures the layer and the orientation of the current     *)
(* page and returns; the decode completes later (onload) or fails.          *)

addImg(s, img) ==
    LET s1 == IF s.currentPageIndex < 0 THEN addPage(s) ELSE s
    IN  [s1 EXCEPT !.loads = Append(@,
            [layer |-> s1.currentPageIndex,
             orientation |-> OrientationOf(s1, s1.currentPageIndex),
             width |-> img[1], height |-> img[2]])]

\* Math.min(w / imgWidth, h / imgHeight): rounding keeps the order of the
\* two quotients, so the smaller double is the rounded smaller fraction
ScaleFactor(w, h, imgWidth, imgHeight) ==
    IF w * imgHeight <= h * imgWidth THEN FDiv(w, imgWidth) ELSE FDiv(h, imgHeight)

\* the Konva.Image of the onload callback that takes the larger of the two
\* quotients (Math.max for Math.min)
FitImageCovers(ld) ==
    LET w == PageW(ld.orientation)
        h == PageH(ld.orientation)
        scaleFactor == IF w * ld.height <= h * ld.width
                       THEN FDiv(h, ld.height) ELSE FDiv(w, ld.width)
        width  == FMulInt(ld.width, scaleFactor)
        height == FMulInt(ld.height, scaleFactor)
    IN  [kind |-> "image",
         x |-> FHalf(FSub(D(w), width)), y |-> FHalf(FSub(D(h), height)),
         width |-> width, height |-> height, rotation |-> 0, stroke |-> "none"]

\* the Konva.Image of the onload callback
FitImage(ld) ==
    LET w == PageW(ld.orientation)
        h == PageH(ld.orientation)
        scaleFactor == ScaleFactor(w, h, ld.width, ld.height)
        width  == FMulInt(ld.width, scaleFactor)
        height == FMulInt(ld.height, scaleFactor)
    IN  [kind |-> "image",
         x |-> FHalf(FSub(D(w), width)), y |-> FHalf(FSub(D(h), height)),
         width |-> width, height |-> height, rotation |-> 0, stroke |-> "none"]

\* onload that looks up the current page and its orientation when it runs
onloadOnCurrentPage(s, k) ==
    LET ld == [s.loads[k] EXCEPT !.layer = s.currentPageIndex,
                                 !.orientation = OrientationOf(s, s.currentPageIndex)]
        id == Len(s.nodes) + 1
    IN  [s EXCEPT !.nodes = Append(@, FitImage(ld)),
                  !.pages[ld.layer + 1].children = Append(@, id),
                  !.loads = SubSeq(s.loads, 1, k - 1) \o SubSeq(s.loads, k + 1, Len(s.loads))]

\* onload that puts the image below the children the layer already has
onloadAtBottom(s, k) ==
    LET ld == s.loads[k]
        id == Len(s.nodes) + 1
    IN  [s EXCEPT !.nodes = Append(@, FitImage(ld)),
                  !.pages[ld.layer + 1].children = <<id>> \o @,
                  !.loads = SubSeq(s.loads, 1, k - 1) \o SubSeq(s.loads, k + 1, Len(s.loads))]

onload(s, k) ==
    LET ld == s.loads[k]
        id == Len(s.nodes) + 1
    IN  [s EXCEPT !.nodes = Append(@, FitImage(ld)),
                  !.pages[ld.layer + 1].children = Append(@, id),
                  !.loads = SubSeq(s.loads, 1, k - 1) \o SubSeq(s.loads, k + 1, Len(s.loads))]

\* the decode fails: no onerror handler is installed, onload never runs
onerror(s, k) ==
    [s EXCEPT !.loads = SubSeq(s.loads, 1, k - 1) \o SubSeq(s.loads, k + 1, Len(s.loads))]

---------------------------------------------------------------------------
(* Rectangles: drawing, selection, deletion *)

\* what is left of a destroyed node: nothing refers to it any more
Destroyed == [kind |-> "destroyed", x |-> D(0), y |-> D(0), width |-> D(0), height |-> D(0),
              rotation |-> 0, stroke |-> "none"]

\* Konva's node.destroy(): the node leaves its parent layer
Destroy(s, id) ==
    [s EXCEPT !.pages = [k \in DOMAIN s.pages |->
                            [s.pages[k] EXCEPT !.children = Remove(@, id)]],
              !.nodes[id] = Destroyed]

SetStroke(s, id, colour) == [s EXCEPT !.nodes[id].stroke = colour]

\* stage.getAbsoluteTransform().copy().invert().point(pos): the stage is only
\* scaled, so the pointer position is divided by the scale
getRelativePointerPosition(s, pos) ==
    IF pos = NoPos THEN <<0, 0>>
    ELSE <<(pos[1] * ZoomOne) \div s.stage.scale, (pos[2] * ZoomOne) \div s.stage.scale>>

addRectangle(s) == [s EXCEPT !.isDrawing = TRUE]

\* deleteRectangle that empties the layer of the selected rectangle
\* (layer.destroyChildren() for selectedRect.destroy())
deleteRectangleClearsLayer(s) ==
    IF s.selectedRect # Null
    THEN LET gone == UNION {Range(s.pages[k].children) :
                               k \in {j \in DOMAIN s.pages :
                                          s.selectedRect \in Range(s.pages[j].children)}}
         IN  [s EXCEPT !.pages = [k \in DOMAIN s.pages |->
                                     [s.pages[k] EXCEPT !.children =
                                         SelectSeq(@, LAMBDA c : c \notin gone)]],
                       !.nodes = [n \in DOMAIN s.nodes |->
                                     IF n \in gone \cup {s.selectedRect}
                                     THEN Destroyed ELSE s.nodes[n]],
                       !.selectedRect = Null]
    ELSE s

\* deleteRectangle that destroys the rectangle and keeps the reference to it
deleteRectangleKeepsSelection(s) ==
    IF s.selectedRect # Null THEN Destroy(s, s.selectedRect) ELSE s

deleteRectangle(s) ==
    IF s.selectedRect # Null
    THEN [Destroy(s, s.selectedRect) EXCEPT !.selectedRect = Null]
    ELSE s

\* selectRectangle that does not restore the stroke of the previous selection
selectRectangleKeepsOld(s, rect) ==
    SetStroke([s EXCEPT !.selectedRect = rect], rect, "red")

selectRectangle(s, rect) ==
    LET s1 == IF s.selectedRect # Null THEN SetStroke(s, s.selectedRect, "blue") ELSE s
    IN  SetStroke([s1 EXCEPT !.selectedRect = rect], rect, "red")

\* deselectRectangle that forgets the rectangle without restoring its stroke
deselectRectangleKeepsStroke(s) ==
    IF s.selectedRect # Null
    THEN [s EXCEPT !.selectedRect = Null]
    ELSE s

deselectRectangle(s) ==
    IF s.selectedRect # Null
    THEN [SetStroke(s, s.selectedRect, "blue") EXCEPT !.selectedRect = Null]
    ELSE s

\* handleSelection without the toggle: a click on the selected rectangle
\* selects it again
handleSelectionNoToggle(s, target) ==
    IF target # Null /\ s.nodes[target].kind = "rect"
    THEN selectRectangle(s, target)
    ELSE deselectRectangle(s)

\* target is e.target: a node, or Null for the stage itself
handleSelection(s, target) ==
    IF target # Null /\ s.nodes[target].kind = "rect"
    THEN IF s.selectedRect = target
         THEN deselectRectangle(s)
         ELSE selectRectangle(s, target)
    ELSE deselectRectangle(s)

handleMouseDown(s, pos, target) ==
    IF s.isDrawing /\ s.currentPageIndex >= 0
    THEN LET localPos == getRelativePointerPosition(s, pos)
             id == Len(s.nodes) + 1
         IN  [s EXCEPT !.drawStartPos = localPos,
                       !.newRect = id,
                       !.nodes = Append(@,
                           [kind |-> "rect", x |-> D(localPos[1]), y |-> D(localPos[2]),
                            width |-> D(0), height |-> D(0), rotation |-> 0,
                            stroke |-> "blue"]),
                       !.pages[s.currentPageIndex + 1].children = Append(@, id)]
    ELSE handleSelection(s, target)

handleMouseMove(s, pos) ==
    IF s.isDrawing /\ s.drawStartPos # NoPos /\ s.newRect # Null
    THEN LET localPos == getRelativePointerPosition(s, pos)
             width  == localPos[1] - s.drawStartPos[1]
             height == localPos[2] - s.drawStartPos[2]
         IN  [s EXCEPT !.nodes[s.newRect].x = D(Min(s.drawStartPos[1], localPos[1])),
                       !.nodes[s.newRect].y = D(Min(s.drawStartPos[2], localPos[2])),
                       !.nodes[s.newRect].width = D(Abs(width)),
                       !.nodes[s.newRect].height = D(Abs(height))]
    ELSE s

\* handleMouseUp that forgets to disarm the tool
handleMouseUpKeepsArmed(s) ==
    IF s.isDrawing
    THEN [s EXCEPT !.drawStartPos = NoPos, !.newRect = Null]
    ELSE s

handleMouseUp(s) ==
    IF s.isDrawing
    THEN [s EXCEPT !.isDrawing = FALSE, !.drawStartPos = NoPos, !.newRect = Null]
    ELSE s

---------------------------------------------------------------------------
(* Export.  toPngs runs to its first await; every animation frame resumes    *)
(* each waiting call once, in the order the calls asked for the frame.      *)

\* stage.toDataURL({x: 0, y: 0, width: stageW, height: stageH, pixelRatio: ratio})
\* with ratio = longEdge / max(stageW, stageH), taken while page `page` is current
\* the capture with ratio = longEdge / stageW whatever the stage's shape
CaptureByWidth(s, longEdge) ==
    [page |-> s.currentPageIndex,
     width |-> s.stage.width, height |-> s.stage.height,
     ratioNum |-> longEdge * ZoomOne,
     ratioDen |-> s.stage.width]

Capture(s, longEdge) ==
    [page |-> s.currentPageIndex,
     width |-> s.stage.width, height |-> s.stage.height,
     ratioNum |-> longEdge * ZoomOne,
     ratioDen |-> IF s.stage.width >= s.stage.height
                  THEN s.stage.width ELSE s.stage.height]

\* toPngs that shows the first page before it looks at longEdge
toPngsChecksLate(s, longEdge) ==
    LET s1 == IF 0 < Len(s.pages) THEN goToPage(s, 0) ELSE s
    IN  IF longEdge <= 0 THEN [s1 EXCEPT !.resolved = <<[error |-> TRUE, pngs |-> <<>>]>>]
        ELSE IF 0 < Len(s.pages)
        THEN [s1 EXCEPT !.exports = Append(@, [i |-> 0, pngs |-> <<>>,
                                                 longEdge |-> longEdge])]
        ELSE [s1 EXCEPT !.resolved = <<[error |-> FALSE, pngs |-> <<>>]>>]

\* toPngs that starts capturing at the page that happens to be current
toPngsFromCurrent(s, longEdge) ==
    IF longEdge <= 0 THEN [s EXCEPT !.resolved = <<[error |-> TRUE, pngs |-> <<>>]>>]
    ELSE IF 0 < Len(s.pages)
    THEN [s EXCEPT !.exports = Append(@, [i |-> 0, pngs |-> <<>>,
                                            longEdge |-> longEdge])]
    ELSE [s EXCEPT !.resolved = <<[error |-> FALSE, pngs |-> <<>>]>>]

toPngs(s, longEdge) ==
    IF longEdge <= 0 THEN [s EXCEPT !.resolved = <<[error |-> TRUE, pngs |-> <<>>]>>]
    ELSE IF 0 < Len(s.pages)
    THEN [goToPage(s, 0) EXCEPT !.exports = Append(@, [i |-> 0, pngs |-> <<>>,
                                                         longEdge |-> longEdge])]
    ELSE [s EXCEPT !.resolved = <<[error |-> FALSE, pngs |-> <<>>]>>]

\* the rest of one loop round of the call e after its await, up to the next await
RECURSIVE ResumeExports(_, _, _)
ResumeExports(s, waiting, kept) ==
    IF waiting = <<>> THEN [s EXCEPT !.exports = kept]
    ELSE LET e    == Head(waiting)
             pngs == Append(e.pngs, Capture(s, e.longEdge))
             i    == e.i + 1
         IN  IF i < Len(s.pages)
             THEN ResumeExports(goToPage(s, i), Tail(waiting),
                                Append(kept, [e EXCEPT !.i = i, !.pngs = pngs]))
             ELSE ResumeExports([s EXCEPT !.resolved = <<[error |-> FALSE, pngs |-> pngs]>>],
                                Tail(waiting), kept)

\* a render frame after which a finished export shows the first page again
animationFrameBackToFirst(s) ==
    LET t == ResumeExports(s, s.exports, <<>>)
    IN  IF Len(t.exports) < Len(s.exports) THEN goToPage(t, 0) ELSE t

animationFrame(s) == ResumeExports(s, s.exports, <<>>)

---------------------------------------------------------------------------
(* The host's upload flow (HomeComponent.onFileChange).  addImg returns      *)
(* nothing, so `await addImg(url)` resumes in a microtask, before any decode *)
(* completes or any other event is handled: the call runs on without         *)
(* interruption until it awaits the conversion of a PDF or returns.          *)

\* file.type: 'application/pdf', 'image/...' or anything else
FileKinds == {"pdf", "image", "other"}

\* the two calls the other way round: addImg(objUrl) before addPage()
uploadImageBeforePage(s, img) == addPage(addImg(s, img))

\* addPage(); await addImg(objUrl)
uploadImage(s, img) == addImg(addPage(s), img)

\* the loop over the pngs of a converted PDF of n pages
RECURSIVE uploadPngs(_, _, _)
uploadPngs(s, n, img) ==
    IF n = 0 THEN s ELSE uploadPngs(uploadImage(s, img), n - 1, img)

\* the loop over files, from its start or from the end of a PDF, up to the
\* next PDF (whose conversion is awaited) or to goToPage(0) after the last file
RECURSIVE uploadFiles(_, _, _)
uploadFiles(s, files, img) ==
    IF files = <<>> THEN goToPage(s, 0)
    ELSE IF Head(files) = "pdf"
    THEN [s EXCEPT !.uploads = Append(@, Tail(files))]
    ELSE IF Head(files) = "image"
    THEN uploadFiles(uploadImage(s, img), Tail(files), img)
    ELSE uploadFiles(s, Tail(files), img)

onFileChange(s, files, img) == uploadFiles(s, files, img)

\* convertPdfToPng resolves with n pngs for the upload k
pdfConverted(s, k, n, img) ==
    LET rest == s.uploads[k]
        s1   == [s EXCEPT !.uploads = SubSeq(@, 1, k - 1) \o SubSeq(@, k + 1, Len(@))]
    IN  uploadFiles(uploadPngs(s1, n, img), rest, img)

---------------------------------------------------------------------------
(* The group-rotation variant of the editor (src/unnamed/part_001), an       *)
(* earlier revision of the class that keeps each page as a Konva.Group with  *)
(* its original size and a rotation, and rotates the group.  groupEditor is  *)
(* that object: pages (group visibility, position and rotation with the      *)
(* stored metadata), _currentPageIndex, baseDimensions and the stage size,   *)
(* in pixels.  Its                                                           *)
(* zoom, stage position and selection, which rotate and showPage only        *)
(* reset, are left out.                                                      *)

\* a % b of JavaScript: the result has the sign of a
JsRem(a, b) == IF a >= 0 THEN a % b ELSE 0 - ((0 - a) % b)

\* the stage size rotate and showPage give a page
effectiveWidth(pageData, rotation) ==
    IF JsRem(rotation, 180) = 90 THEN pageData.originalHeight ELSE pageData.originalWidth

effectiveHeight(pageData, rotation) ==
    IF JsRem(rotation, 180) = 90 THEN pageData.originalWidth ELSE pageData.originalHeight

\* showPage(pageIndex); pages[pageIndex] is undefined for an index out of
\* range and the first property read throws
showPage(e, pageIndex) ==
    IF pageIndex < 0 \/ pageIndex >= Len(e.pages) THEN e
    ELSE LET pageData == e.pages[pageIndex + 1]
             w == effectiveWidth(pageData, pageData.rotation)
             h == effectiveHeight(pageData, pageData.rotation)
         IN  [e EXCEPT !.stage = [width |-> w, height |-> h],
                       !.pages = [k \in DOMAIN e.pages |->
                                     [e.pages[k] EXCEPT !.x = w \div 2,
                                                        !.y = h \div 2,
                                                        !.visible = (k = pageIndex + 1)]],
                       !.currentPageIndex = pageIndex]

\* addPage(options) of the variant
addPageGroup(e, options) ==
    LET width  == IF options = <<>> THEN e.baseDimensions.width ELSE options[1]
        height == IF options = <<>> THEN e.baseDimensions.height ELSE options[2]
        e1 == [e EXCEPT !.pages = Append(@,
                  [originalWidth |-> width, originalHeight |-> height,
                   rotation |-> 0, visible |-> FALSE, x |-> 0, y |-> 0])]
    IN  showPage(e1, Len(e1.pages) - 1)

\* rotate(degrees); with no page pages[-1] is undefined and the call throws
rotate(e, degrees) ==
    IF e.currentPageIndex < 0 THEN e
    ELSE LET pageData    == e.pages[e.currentPageIndex + 1]
             newRotation == JsRem(pageData.rotation + degrees, 360)
             w == effectiveWidth(pageData, newRotation)
             h == effectiveHeight(pageData, newRotation)
         IN  [e EXCEPT !.pages[e.currentPageIndex + 1].rotation = newRotation,
                       !.pages[e.currentPageIndex + 1].x = w \div 2,
                       !.pages[e.currentPageIndex + 1].y = h \div 2,
                       !.stage = [width |-> w, height |-> h]]

rotateLeftGroup(e) == rotate(e, -90)

rotateRightGroup(e) == rotate(e, 90)

---------------------------------------------------------------------------
(* Actions: one per public method, event handler or callback.  The value a   *)
(* toPngs promise settles with is visible in the state the call settles in  *)
(* and dropped by the next step.                                            *)

Do(t) == Becomes([t EXCEPT !.resolved = Unsettled])

\* nodes that exist or are being decoded
NodeBudget == Len(nodes) + Len(loads)

\* the nodes the pointer can hit: the children of the layers that are shown
Hittable == UNION {Range(pages[k].children) : k \in {j \in DOMAIN pages : pages[j].visible}}

\* the screen positions of the page-local points pts at the current scale
PointerPositions(pts) ==
    {<<(l[1] * stage.scale) \div ZoomOne, (l[2] * stage.scale) \div ZoomOne>> : l \in pts}

\* a rotate by delta is explored while the page stays between b.lefts quarter
\* turns to the left and b.turns to the right of upright, and so does the
\* rotation attribute of each of its children
TurnAllowed(delta, b) ==
    currentPageIndex >= 0 =>
        LET o == pageOrientations[currentPageIndex + 1]
            n == IF delta > 0 THEN rotateOrientationRight(o) ELSE rotateOrientationLeft(o)
            window == {90 * j : j \in (0 - b.lefts) .. b.turns}
        IN  /\ n \in {w % 360 : w \in window}
            /\ \A c \in Range(pages[currentPageIndex + 1].children) :
                   nodes[c].rotation + delta \in window

AddPage(b) == Len(pages) < b.pages /\ Do(addPage(S))

NextPage == \E t \in {nextPage(S)} : Do(t)

PrevPage == \E t \in {prevPage(S)} : Do(t)

GoToPage == \E pageIndex \in -1 .. Len(pages) : Do(goToPage(S, pageIndex))

RotateLeft(b) == TurnAllowed(-90, b) /\ Do(rotateLeft(S))

RotateRight(b) == TurnAllowed(90, b) /\ Do(rotateRight(S))

Zoom(b) == \E factor \in b.factors :
            /\ factor > 0 => factor \in b.zooms
            /\ Do(zoom(S, factor))

ZoomIn(b) == currentZoom + ZoomStep \in b.zooms /\ Do(zoomIn(S))

ZoomOut(b) ==
    /\ currentZoom - ZoomStep > 0 => currentZoom - ZoomStep \in b.zooms
    /\ Do(zoomOut(S))

ResetZoom == \E t \in {resetZoom(S)} : Do(t)

AddImg(b) == \E img \in b.images :
            /\ Len(loads) < b.loads
            /\ NodeBudget < b.nodes
            /\ Do(addImg(S, img))

Onload == \E k \in DOMAIN loads : Do(onload(S, k))

Onerror == \E k \in DOMAIN loads : Do(onerror(S, k))

AddRectangle == \E t \in {addRectangle(S)} : Do(t)

DeleteRectangle == \E t \in {deleteRectangle(S)} : Do(t)

MouseDown(b) == \E pos \in PointerPositions(b.pts), target \in Hittable \cup {Null} :
                /\ (isDrawing /\ currentPageIndex >= 0) => NodeBudget < b.nodes
                /\ Do(handleMouseDown(S, pos, target))

MouseMove(b) == \E pos \in PointerPositions(b.pts) : Do(handleMouseMove(S, pos))

MouseUp == \E t \in {handleMouseUp(S)} : Do(t)

ToPngs(b) == \E longEdge \in b.longEdges :
            /\ Len(exports) < b.exports
            /\ Becomes(toPngs([S EXCEPT !.resolved = Unsettled], longEdge))

AnimationFrame ==
    /\ exports # <<>>
    /\ Becomes(animationFrame([S EXCEPT !.resolved = Unsettled]))

Navigate(b) == AddPage(b) \/ NextPage \/ PrevPage \/ GoToPage

Turn(b) == RotateLeft(b) \/ RotateRight(b)

Scale(b) == Zoom(b) \/ ZoomIn(b) \/ ZoomOut(b) \/ ResetZoom

Load(b) == AddImg(b) \/ Onload \/ Onerror

Draw(b) == AddRectangle \/ DeleteRectangle \/ MouseDown(b) \/ MouseMove(b) \/ MouseUp

Export(b) == ToPngs(b) \/ AnimationFrame

\* the lists of at most n files
FileLists(n) == UNION {[1 .. m -> FileKinds] : m \in 0 .. n}

\* the pages a list of files can add
RECURSIVE PagesNeeded(_, _)
PagesNeeded(files, b) ==
    IF files = <<>> THEN 0
    ELSE (CASE Head(files) = "pdf" -> b.pdfPages
            [] Head(files) = "image" -> 1
            [] OTHER -> 0) + PagesNeeded(Tail(files), b)

\* pages still to come from the PDFs the uploads in flight wait for or hold
PagesAwaited(b) ==
    LET RECURSIVE Sum(_)
        Sum(k) == IF k = 0 THEN 0
                  ELSE b.pdfPages + PagesNeeded(uploads[k], b) + Sum(k - 1)
    IN  Sum(Len(uploads))

\* an upload is explored while the pages it and the uploads in flight can
\* add keep the document within b.files + b.pdfPages pages
OnFileChange(b) == \E files \in FileLists(b.files), img \in b.images :
                   /\ Len(pages) + PagesAwaited(b) + PagesNeeded(files, b)
                          <= b.files + b.pdfPages
                   /\ Do(onFileChange(S, files, img))

PdfConverted(b) == \E k \in DOMAIN uploads, n \in 1 .. b.pdfPages, img \in b.images :
                   Do(pdfConverted(S, k, n, img))

Upload(b) == OnFileChange(b) \/ PdfConverted(b)

\* a step of the group-rotation variant: the other editor is not involved
GroupBecomes(e) ==
    /\ groupEditor' = e
    /\ UNCHANGED <<pages, pageOrientations, currentPageIndex, currentZoom,
                   isDrawing, drawStartPos, newRect, selectedRect, stage,
                   currentPageIndexSubject, pageCountSubject, nodes, loads,
                   exports, resolved, uploads>>

AddPageGroup(b) == \E options \in PageOptions :
                   /\ Len(groupEditor.pages) < b.pages
                   /\ GroupBecomes(addPageGroup(groupEditor, options))

ShowPage == \E pageIndex \in -1 .. Len(groupEditor.pages) :
            GroupBecomes(showPage(groupEditor, pageIndex))

RotateLeftGroup == \E e \in {rotateLeftGroup(groupEditor)} : GroupBecomes(e)

RotateRightGroup == \E e \in {rotateRightGroup(groupEditor)} : GroupBecomes(e)

\* pages, zoom, images and the rectangle tool
Next == Navigate(Bounds) \/ Scale(Bounds) \/ Load(Bounds) \/ Draw(Bounds)

Spec == Init /\ [][Next]_vars

\* pages, zoom, images and export
NextPages == Navigate(Bounds) \/ Scale(Bounds) \/ Load(Bounds) \/ Export(Bounds)

SpecPages == Init /\ [][NextPages]_vars

\* pages, rotation and zoom, without shapes
NextView == Navigate(ViewBounds) \/ Turn(ViewBounds) \/ Scale(ViewBounds)

SpecView == Init /\ [][NextView]_vars

\* pages, rotation, zoom and export, without shapes
NextExport == Navigate(Bounds) \/ Turn(Bounds) \/ Scale(Bounds) \/ Export(Bounds)

SpecExport == Init /\ [][NextExport]_vars

\* pages, rotation, zoom and images
NextImages == Navigate(ImageBounds) \/ Turn(ImageBounds) \/ Scale(ImageBounds)
              \/ Load(ImageBounds)

SpecImages == Init /\ [][NextImages]_vars

\* the host's uploads, the decodes they start and the page buttons
NextUpload == Upload(Bounds) \/ Onload \/ Onerror \/ NextPage \/ PrevPage

SpecUpload == Init /\ [][NextUpload]_vars

\* the group-rotation variant: its pages and its rotation
NextGroup == AddPageGroup(Bounds) \/ ShowPage \/ RotateLeftGroup \/ RotateRightGroup

SpecGroup == Init /\ [][NextGroup]_vars

\* one page (the one addImg creates when there is none), its images and
\* rectangles, turned up to PageTurns quarter turns to the right and back
NextTurns == Load(TurnBounds) \/ Draw(TurnBounds) \/ Turn(TurnBounds)

SpecTurns == Init /\ [][NextTurns]_vars

\* every operation of the editor
NextAll == Navigate(AllBounds) \/ Turn(AllBounds) \/ Scale(AllBounds)
           \/ Load(AllBounds) \/ Draw(AllBounds) \/ Export(AllBounds)

SpecAll == Init /\ [][NextAll]_vars

---------------------------------------------------------------------------
(* Properties *)

\* the pointer events a specification with bounds b delivers
Pointers(b) == PointerPositions(b.pts)
Targets == Hittable \cup {Null}
IsRect(s, n) == n # Null /\ s.nodes[n].kind = "rect"

\* the rectangles shown as selected (red stroke)
SelectedRects(s) == {n \in DOMAIN s.nodes : s.nodes[n].kind = "rect" /\ s.nodes[n].stroke = "red"}

\* the page whose layer holds node n, -1 when it is in no layer
PageOf(s, n) ==
    IF \E k \in DOMAIN s.pages : n \in Range(s.pages[k].children)
    THEN (CHOOSE k \in DOMAIN s.pages : n \in Range(s.pages[k].children)) - 1
    ELSE -1

\* C4: the current page index is -1 exactly when there are no pages and is
\* otherwise a valid index into the page list, whatever addPage, goToPage,
\* nextPage, prevPage, addImg and toPngs were called.
C4_CurrentPageIndexValid ==
    IF Len(pages) = 0
    THEN currentPageIndex = -1
    ELSE currentPageIndex \in 0 .. Len(pages) - 1

\* two pages, the first made current again while an export is in flight
C4_Witness == Len(pages) = 2 /\ currentPageIndex = 0 /\ exports # <<>>

AtMostOneSelected ==
    /\ Cardinality(SelectedRects(S)) <= 1
    /\ SelectedRects(S) = (IF selectedRect = Null THEN {} ELSE {selectedRect})

NoneSelected(t) == t.selectedRect = Null /\ SelectedRects(t) = {}

\* C5 (as amended): at most one rectangle is selected in every reachable
\* state, and a pointer-down that hits no rectangle and does not start a draw
\* (the tool is not armed, or there is no current page) leaves no rectangle
\* selected.
C5_SelectionExclusive ==
    /\ AtMostOneSelected
    /\ \A pos \in Pointers(Bounds), target \in Targets :
           (~IsRect(S, target) /\ ~(isDrawing /\ currentPageIndex >= 0))
               => NoneSelected(handleMouseDown(S, pos, target))

\* a rectangle is selected next to an unselected one on the current page and
\* the tool is not armed: the next pointer-down is a selection click
C5_Witness ==
    /\ selectedRect # Null
    /\ ~isDrawing
    /\ currentPageIndex >= 0
    /\ \E n \in Range(Layer(S, currentPageIndex).children) :
           n # selectedRect /\ nodes[n].kind = "rect" /\ nodes[n].stroke = "blue"
    /\ selectedRect \in Range(Layer(S, currentPageIndex).children)

\* C5 as stated: at most one rectangle is selected, and every pointer-down
\* that hits no rectangle leaves no rectangle selected.
C5_AsStated ==
    /\ AtMostOneSelected
    /\ \A pos \in Pointers(Bounds), target \in Targets :
           ~IsRect(S, target) => NoneSelected(handleMouseDown(S, pos, target))

\* C6: after goToPage with a valid index no rectangle is selected, so a
\* selected rectangle is always on the current page.
C6_PageSwitchClearsSelection ==
    /\ \A pageIndex \in 0 .. Len(pages) - 1 : NoneSelected(goToPage(S, pageIndex))
    /\ selectedRect # Null => PageOf(S, selectedRect) = currentPageIndex

InProgress == newRect # Null

\* C7: while a rectangle is in progress a further pointer-down creates no
\* rectangle and changes neither the anchor nor the in-progress rectangle.
C7_OneDrawAtATime ==
    InProgress =>
        \A pos \in Pointers(Bounds), target \in Targets :
            LET t == handleMouseDown(S, pos, target)
            IN  /\ Len(t.nodes) = Len(nodes)
                /\ t.pages = pages
                /\ t.drawStartPos = drawStartPos
                /\ t.newRect = newRect
                /\ t.nodes[newRect] = nodes[newRect]

\* the in-progress rectangle is the bounding box of the anchor and of some
\* pointer position: x is A.x or A.x - width, y is A.y or A.y - height
BoxOfAnchor(r, A) ==
    /\ r.rotation = 0
    /\ r.x.f = 0 /\ r.y.f = 0
    /\ r.width.f = 0 /\ r.height.f = 0
    /\ r.x.i = A[1] \/ r.x.i = A[1] - r.width.i
    /\ r.y.i = A[2] \/ r.y.i = A[2] - r.height.i

\* C8: while a rectangle is in progress with anchor A it is the bounding box
\* of A and the pointer position P processed last (x = min(A.x, P.x), y =
\* min(A.y, P.y), width = |P.x - A.x|, height = |P.y - A.y|), also when
\* rotate, zoom or a page switch came between the pointer events.
C8_DrawBoundingBox ==
    InProgress =>
        /\ BoxOfAnchor(nodes[newRect], drawStartPos)
        /\ \A pos \in Pointers(TurnBounds) :
               LET P == getRelativePointerPosition(S, pos)
                   r == handleMouseMove(S, pos).nodes[newRect]
               IN  /\ r.x = D(Min(drawStartPos[1], P[1]))
                   /\ r.y = D(Min(drawStartPos[2], P[2]))
                   /\ r.width = D(Abs(P[1] - drawStartPos[1]))
                   /\ r.height = D(Abs(P[2] - drawStartPos[2]))

\* t is u after a pointer-down at pos that started a draw
StartsDraw(u, t, pos) ==
    LET A  == getRelativePointerPosition(u, pos)
        id == Len(u.nodes) + 1
    IN  /\ t.drawStartPos = A
        /\ t.newRect = id
        /\ Len(t.nodes) = id
        /\ t.nodes[id].kind = "rect"
        /\ t.nodes[id].x = D(A[1]) /\ t.nodes[id].y = D(A[2])
        /\ t.nodes[id].width = D(0) /\ t.nodes[id].height = D(0)
        /\ Layer(t, u.currentPageIndex).children
               = Append(Layer(u, u.currentPageIndex).children, id)

\* the states a pointer-move and a pointer-up, in any number, lead to from s
AfterMovesAndUps(s, b) ==
    {s, handleMouseUp(s)}
        \cup {handleMouseMove(s, pos) : pos \in Pointers(b)}
        \cup {handleMouseUp(handleMouseMove(s, pos)) : pos \in Pointers(b)}

\* C9: once addRectangle has armed the tool, the next pointer-down with a
\* current page starts a draw (anchor recorded, zero-size rectangle added to
\* the current page), whatever pointer-moves and pointer-ups came in between.
C9_ArmedPointerDownStartsDraw ==
    currentPageIndex >= 0 =>
        \A u \in AfterMovesAndUps(addRectangle(S), Bounds) :
            \A pos \in Pointers(Bounds), target \in Targets :
                StartsDraw(u, handleMouseDown(u, pos, target), pos)

\* C10: a pointer-up while a rectangle is in progress ends the draw: the
\* rectangle stays on its page with its geometry, the tool is neither drawing
\* nor armed, and the next pointer-down creates nothing and is a selection
\* click (it selects the rectangle it hits, the finished one included, or
\* clears the selection).
C10_PointerUpEndsDraw ==
    InProgress =>
        LET t == handleMouseUp(S)
        IN  /\ ~t.isDrawing /\ t.newRect = Null /\ t.drawStartPos = NoPos
            /\ t.nodes = nodes /\ t.pages = pages
            /\ nodes[newRect].kind = "rect"
            /\ PageOf(t, newRect) >= 0
            /\ \A pos \in Pointers(Bounds), target \in Targets \cup {newRect} :
                   LET d == handleMouseDown(t, pos, target)
                   IN  /\ Len(d.nodes) = Len(nodes) /\ d.pages = pages
                       /\ d.newRect = Null /\ ~d.isDrawing
                       /\ d.selectedRect =
                              (IF IsRect(t, target) /\ target # selectedRect
                               THEN target ELSE Null)

\* a second rectangle is in progress and has been dragged out, next to a
\* finished one on the same page
C10_Witness ==
    /\ InProgress
    /\ nodes[newRect].width.i > 0
    /\ \E n \in Range(Layer(S, currentPageIndex).children) :
           n # newRect /\ nodes[n].kind = "rect" /\ nodes[n].width.i > 0

IsPrefix(a, b) == Len(a) <= Len(b) /\ SubSeq(b, 1, Len(a)) = a

ChildCount(ps) == LET RECURSIVE Sum(_)
                      Sum(k) == IF k = 0 THEN 0 ELSE Len(ps[k].children) + Sum(k - 1)
                  IN  Sum(Len(ps))

\* C2: no step loses a child: in every step each page's list of children
\* grows by appending or stays, except a step that deletes the selected
\* rectangle, which removes that one node from its page and nothing else.
C2_ChildrenOnlyGrow ==
    [][/\ Len(pages') >= Len(pages)
       /\ \/ \A k \in DOMAIN pages : IsPrefix(pages[k].children, pages'[k].children)
          \/ /\ selectedRect # Null
             /\ selectedRect' = Null
             /\ \A k \in DOMAIN pages :
                    pages'[k].children = Remove(pages[k].children, selectedRect)
             /\ ChildCount(pages') = ChildCount(pages) - 1]_vars

\* a rectangle has been deleted and another child is still on its page
C2_Witness ==
    /\ \E n \in DOMAIN nodes : nodes[n] = Destroyed
    /\ \E k \in DOMAIN pages : pages[k].children # <<>>

\* 2^-43, one unit in the last place of a double between 512 and 1024, in
\* units of 2^-68
RoundingTolerance == 2^(QExp - 43)

Close(a, b) == a.i = b.i /\ Abs(a.f - b.f) <= RoundingTolerance

RoundTrips == {rotateLeft(rotateRight(S)), rotateRight(rotateLeft(S))}

\* C1 (as amended): rotateRight then rotateLeft, and rotateLeft then
\* rotateRight, restore the page's orientation and every shape's width,
\* height and rotation, and every shape's x and y to within floating-point
\* rounding (2^-43).
C1_RoundTripWithinRounding ==
    currentPageIndex >= 0 =>
        \A t \in RoundTrips :
            /\ t.pageOrientations = pageOrientations
            /\ \A n \in DOMAIN nodes :
                   /\ t.nodes[n].width = nodes[n].width
                   /\ t.nodes[n].height = nodes[n].height
                   /\ t.nodes[n].rotation = nodes[n].rotation
                   /\ Close(t.nodes[n].x, nodes[n].x)
                   /\ Close(t.nodes[n].y, nodes[n].y)

\* a page holding an image and a rectangle is upright again after turns to
\* the right and back, with a shape left off the integer grid it started on
C1_Witness ==
    /\ currentPageIndex >= 0
    /\ OrientationOf(S, currentPageIndex) = 0
    /\ {nodes[n].kind : n \in Range(Layer(S, currentPageIndex).children)}
           = {"image", "rect"}
    /\ \E n \in Range(Layer(S, currentPageIndex).children) :
           nodes[n].rotation = 0 /\ (nodes[n].x.f # 0 \/ nodes[n].y.f # 0)

\* C1 as stated: the two calls restore the page's orientation and every
\* shape's x, y, width, height and rotation.
C1_AsStated ==
    currentPageIndex >= 0 =>
        \A t \in RoundTrips :
            /\ t.pageOrientations = pageOrientations
            /\ t.nodes = nodes

Four(f(_), s) == f(f(f(f(s))))

\* C3: four rotateRight calls, and four rotateLeft calls, return the page's
\* orientation and every shape's x, y, width and height to their exact
\* starting values.
C3_OrientationClosure ==
    currentPageIndex >= 0 =>
        \A t \in {Four(rotateRight, S), Four(rotateLeft, S)} :
            /\ t.pageOrientations = pageOrientations
            /\ \A n \in DOMAIN nodes :
                   /\ t.nodes[n].x = nodes[n].x
                   /\ t.nodes[n].y = nodes[n].y
                   /\ t.nodes[n].width = nodes[n].width
                   /\ t.nodes[n].height = nodes[n].height

\* t differs from s at most in the selection and in the strokes of nodes
SameButSelection(s, t) ==
    /\ [t EXCEPT !.selectedRect = Null, !.nodes = <<>>]
           = [s EXCEPT !.selectedRect = Null, !.nodes = <<>>]
    /\ DOMAIN t.nodes = DOMAIN s.nodes
    /\ \A n \in DOMAIN s.nodes : [t.nodes[n] EXCEPT !.stroke = "blue"]
                                     = [s.nodes[n] EXCEPT !.stroke = "blue"]

\* C11: while the tool is not drawing, a pointer-down on the selected
\* rectangle leaves nothing selected, a pointer-down on another rectangle
\* makes that rectangle the only selected one (the previous one is blue
\* again), and a pointer-down on the stage or an image leaves nothing
\* selected; nothing but the selection changes.
C11_SelectionToggle ==
    ~isDrawing =>
        \A pos \in Pointers(Bounds), target \in Targets :
            LET t == handleMouseDown(S, pos, target)
            IN  /\ SameButSelection(S, t)
                /\ IF IsRect(S, target) /\ target # selectedRect
                   THEN /\ t.selectedRect = target
                        /\ SelectedRects(t) = {target}
                        /\ selectedRect # Null => t.nodes[selectedRect].stroke = "blue"
                   ELSE NoneSelected(t)

\* a rectangle on the current page was selected by a click, an image lies on
\* the same page, and the tool is not armed: the selected rectangle, the image
\* and the empty stage can all be hit
C11_Witness ==
    /\ ~isDrawing
    /\ selectedRect \in Hittable
    /\ \E n \in Hittable : nodes[n].kind = "image"
    /\ nodes[selectedRect].stroke = "red"

\* C12: deleteRectangle with a rectangle selected removes exactly that
\* rectangle from the page that holds it and leaves nothing selected, every
\* other shape, the pages, the zoom and the draw state staying as they were;
\* with nothing selected it changes nothing.
C12_DeleteSelected ==
    LET t == deleteRectangle(S)
    IN  IF selectedRect = Null THEN t = S
        ELSE /\ NoneSelected(t)
             /\ PageOf(t, selectedRect) = -1
             /\ \A k \in DOMAIN pages :
                    /\ t.pages[k].children = Remove(pages[k].children, selectedRect)
                    /\ t.pages[k].visible = pages[k].visible
             /\ DOMAIN t.nodes = DOMAIN nodes
             /\ \A n \in DOMAIN nodes \ {selectedRect} : t.nodes[n] = nodes[n]
             /\ [t EXCEPT !.selectedRect = Null, !.nodes = <<>>, !.pages = <<>>]
                    = [S EXCEPT !.selectedRect = Null, !.nodes = <<>>, !.pages = <<>>]

\* a rectangle was deleted, nothing is selected and another shape is still
\* on a page
C12_Witness ==
    /\ selectedRect = Null
    /\ \E n \in DOMAIN nodes : nodes[n] = Destroyed
    /\ \E n \in DOMAIN nodes : PageOf(S, n) >= 0

\* render frames delivered one after the other, nothing else being called,
\* until no toPngs call is waiting
RECURSIVE Complete(_)
Complete(s) == IF s.exports = <<>> THEN s ELSE Complete(animationFrame(s))

Fresh == [S EXCEPT !.resolved = Unsettled]

\* C13: toPngs(n) with n > 0, left alone until it completes, resolves to one
\* artifact per page in page order (none for zero pages); artifact i is
\* captured with page i current and the stage at page i's oriented size times
\* the zoom, whatever page was current before.
C13_ExportOrder ==
    exports = <<>> =>
        \A longEdge \in {e \in LongEdges : e > 0} :
            LET t == Complete(toPngs(Fresh, longEdge))
            IN  /\ t.exports = <<>>
                /\ t.resolved # Unsettled
                /\ ~t.resolved[1].error
                /\ Len(t.resolved[1].pngs) = Len(pages)
                /\ \A i \in 0 .. Len(pages) - 1 :
                       LET png == t.resolved[1].pngs[i + 1]
                       IN  /\ png.page = i
                           /\ png.width = PageW(OrientationOf(S, i)) * currentZoom
                           /\ png.height = PageH(OrientationOf(S, i)) * currentZoom

\* an export of an upright and a turned page at a zoom other than 1 has just
\* completed with one artifact per page, each of its page's size
C13_Witness ==
    /\ resolved # Unsettled
    /\ Len(pages) = 2
    /\ currentZoom # ZoomOne
    /\ pageOrientations = <<0, 90>>
    /\ Len(resolved[1].pngs) = 2
    /\ \A i \in 1 .. 2 :
           /\ resolved[1].pngs[i].page = i - 1
           /\ resolved[1].pngs[i].width = PageW(pageOrientations[i]) * currentZoom
           /\ resolved[1].pngs[i].height = PageH(pageOrientations[i]) * currentZoom

\* C14: whenever a toPngs call waits for its render frame before capturing
\* artifact i, page i is the current page and the stage has page i's oriented
\* size, whatever else the host calls in the meantime.
C14_ExportExclusive ==
    \A k \in DOMAIN exports :
        LET i == exports[k].i
        IN  /\ currentPageIndex = i
            /\ stage.width = PageW(OrientationOf(S, i)) * currentZoom
            /\ stage.height = PageH(OrientationOf(S, i)) * currentZoom

\* C15: toPngs(longEdge) with longEdge <= 0 fails with an error and does
\* nothing else: no artifact, no emission on a subject, and the current page,
\* the pages, the shapes, the zoom and the stage are as before the call.
C15_ExportRejectsNonPositive ==
    \A longEdge \in {e \in LongEdges : e <= 0} :
        LET t == toPngs(Fresh, longEdge)
        IN  /\ t.resolved = <<[error |-> TRUE, pngs |-> <<>>]>>
            /\ t.emitted = <<>>
            /\ [t EXCEPT !.resolved = Unsettled] = Fresh

\* a toPngs call has just failed while the second of two pages is current and
\* an image is on a page
C15_Witness ==
    /\ resolved = <<[error |-> TRUE, pngs |-> <<>>]>>
    /\ Len(pages) = 2
    /\ currentPageIndex = 1
    /\ \E n \in DOMAIN nodes : PageOf(S, n) >= 0

\* whole pixels of a captured side: toDataURL rasters side x pixelRatio
Pixels(side, png) == (side * png.ratioNum) \div (png.ratioDen * ZoomOne)

LongSide(png) == IF png.width >= png.height THEN png.width ELSE png.height
ShortSide(png) == IF png.width >= png.height THEN png.height ELSE png.width

StageFits(t) ==
    LET o == OrientationOf(t, t.currentPageIndex)
    IN  /\ t.stage.width = (IF o \in {90, 270} THEN baseHeight ELSE baseWidth)
                               * t.currentZoom
        /\ t.stage.height = (IF o \in {90, 270} THEN baseWidth ELSE baseHeight)
                               * t.currentZoom

\* C17: with a current page, right after zoom(f) with f > 0, rotateLeft,
\* rotateRight or goToPage with a valid index the stage has the current page's
\* oriented base size (612x792, swapped at 90 and 270) times the zoom factor;
\* zoom(2) gives twice the stage width and height of zoom(1).
C17_StageSizeAfterViewChange ==
    currentPageIndex >= 0 =>
        /\ \A factor \in {f \in ViewBounds.factors : f > 0} \cup {2 * ZoomOne} :
               /\ StageFits(zoom(S, factor))
               /\ zoom(S, factor).currentZoom = factor
        /\ StageFits(rotateLeft(S))
        /\ StageFits(rotateRight(S))
        /\ \A pageIndex \in 0 .. Len(pages) - 1 :
               /\ StageFits(goToPage(S, pageIndex))
               /\ goToPage(S, pageIndex).currentPageIndex = pageIndex
        /\ zoom(S, 2 * ZoomOne).stage.width = 2 * zoom(S, ZoomOne).stage.width
        /\ zoom(S, 2 * ZoomOne).stage.height = 2 * zoom(S, ZoomOne).stage.height

\* the current page was turned to 270 and the zoom set away from 1, and
\* another page stands upright
C17_Witness ==
    /\ currentPageIndex >= 0
    /\ OrientationOf(S, currentPageIndex) = 270
    /\ currentZoom # ZoomOne
    /\ stage.width = baseHeight * currentZoom
    /\ stage.height = baseWidth * currentZoom
    /\ \E k \in DOMAIN pageOrientations : pageOrientations[k] = 0

\* C18: in every reachable state with at least one page the stage has the
\* current page's oriented base size times the current zoom factor, also
\* after addPage and after a zoom made before the first page.
C18_StageSizeInvariant == Len(pages) > 0 => StageFits(S)

\* C19: zoom(factor) with factor <= 0 changes nothing; the zoom factor is
\* positive in every reachable state and stays positive under zoomIn and
\* zoomOut, zoomOut changing nothing when one step down would not be
\* positive; resetZoom sets the factor to 1.
C19_ZoomPositive ==
    /\ currentZoom > 0
    /\ \A factor \in {f \in ViewBounds.factors : f <= 0} : zoom(S, factor) = S
    /\ zoomIn(S).currentZoom > 0
    /\ zoomOut(S).currentZoom > 0
    /\ currentZoom - ZoomStep <= 0 => zoomOut(S) = S
    /\ resetZoom(S).currentZoom = ZoomOne
    /\ resetZoom(S).stage.scale = ZoomOne

\* the zoom was set to one step above zero on a turned page: one more step
\* down would reach zero
C19_Witness ==
    /\ currentZoom = ZoomStep
    /\ stage.scale = ZoomStep
    /\ currentPageIndex >= 0
    /\ OrientationOf(S, currentPageIndex) = 90
    /\ stage.width = baseHeight * ZoomStep

\* C20: goToPage(index) with index < 0 or index >= the page count changes
\* nothing (current page, visibility, stage, zoom, selection) and emits
\* nothing; with a valid index that page becomes the current and the only
\* newly shown one, and its index is emitted once on currentPageIndex$.
C20_GoToPageRange ==
    /\ \A pageIndex \in {-2, -1, Len(pages), Len(pages) + 1} :
           /\ goToPage(S, pageIndex).emitted = <<>>
           /\ goToPage(S, pageIndex) = S
    /\ \A pageIndex \in 0 .. Len(pages) - 1 :
           LET t == goToPage(S, pageIndex)
           IN  /\ t.currentPageIndex = pageIndex
               /\ t.currentPageIndexSubject = pageIndex
               /\ t.emitted = << <<"currentPageIndex$", pageIndex>> >>
               /\ t.pages[pageIndex + 1].visible
               /\ \A k \in DOMAIN pages \ {pageIndex + 1} :
                      t.pages[k].visible
                          = (pages[k].visible /\ k # currentPageIndex + 1)

\* the first of two pages was made current again, the second is hidden, and
\* a rectangle is selected
C20_Witness ==
    /\ Len(pages) = 2
    /\ currentPageIndex = 0
    /\ currentPageIndexSubject = 0
    /\ pages[1].visible /\ ~pages[2].visible
    /\ selectedRect # Null

\* C21: nextPage moves the current page index up by one when it is below
\* pageCount - 1 and prevPage moves it down by one when it is above 0, each
\* emitting the new index; on the last page, on the first page and with no
\* pages the call changes nothing and emits nothing.
C21_NextPrevPage ==
    /\ LET t == nextPage(S)
       IN  IF currentPageIndex < Len(pages) - 1
           THEN /\ t.currentPageIndex = currentPageIndex + 1
                /\ t.emitted = << <<"currentPageIndex$", currentPageIndex + 1>> >>
                /\ t = goToPage(S, currentPageIndex + 1)
           ELSE t = S /\ t.emitted = <<>>
    /\ LET t == prevPage(S)
       IN  IF currentPageIndex > 0
           THEN /\ t.currentPageIndex = currentPageIndex - 1
                /\ t.emitted = << <<"currentPageIndex$", currentPageIndex - 1>> >>
                /\ t = goToPage(S, currentPageIndex - 1)
           ELSE t = S /\ t.emitted = <<>>

\* the last of two pages is current and shown, the first is hidden and holds
\* a shape: nextPage is at its boundary, prevPage is not
C21_Witness ==
    /\ Len(pages) = 2
    /\ currentPageIndex = 1
    /\ pages[2].visible /\ ~pages[1].visible
    /\ pages[1].children # <<>>

\* t is s with one empty upright page appended and made current
PageAppended(s, t) ==
    /\ Len(t.pages) = Len(s.pages) + 1
    /\ t.pages[Len(t.pages)].children = <<>>
    /\ t.pageOrientations = Append(s.pageOrientations, 0)
    /\ t.currentPageIndex = Len(s.pages)
    /\ t.pageCountSubject = Len(s.pages) + 1
    /\ \A k \in DOMAIN s.pages : t.pages[k].children = s.pages[k].children
    /\ t.nodes = s.nodes

\* C22: addPage appends exactly one page with orientation 0 and no children
\* at the end of the page list, makes it current and raises the page count
\* by one, the orientation and children of the existing pages staying as
\* they were; no step of any operation lowers the number of pages.
C22_AddPageAppends ==
    /\ [](PageAppended(S, addPage(S)))
    /\ [][Len(pages') >= Len(pages)
            /\ Len(pageOrientations') = Len(pages')]_vars

\* a second page was added after the first was turned and given an image:
\* the new page is upright, empty and current
C22_Witness ==
    /\ Len(pages) = 2
    /\ currentPageIndex = 1
    /\ pageOrientations = <<90, 0>>
    /\ pages[1].children # <<>>
    /\ pages[2].children = <<>>
    /\ pageCountSubject = 2

\* C23: addImg called while there is no page creates no page, starts no
\* image, emits nothing and changes nothing.
C23_AddImgNeedsPage ==
    Len(pages) = 0 =>
        \A img \in ImageSizes :
            /\ addImg(S, img).emitted = <<>>
            /\ addImg(S, img) = S

\* a <= b for doubles near the grid
Le(a, b) == a.i < b.i \/ (a.i = b.i /\ a.f <= b.f)

\* a + b and 2a + b without rounding
Plus(a, b) == [i |-> a.i + b.i, f |-> a.f + b.f]
TwicePlus(a, b) == [i |-> 2 * a.i + b.i, f |-> 2 * a.f + b.f]

\* the frame of a pending decode and the image its onload would place
FrameW(ld) == IF ld.orientation \in {90, 270} THEN baseHeight ELSE baseWidth
FrameH(ld) == IF ld.orientation \in {90, 270} THEN baseWidth ELSE baseHeight
Placed(k) == onload(S, k).nodes[Len(nodes) + 1]

\* the image nd of natural size iw x ih has one scale on both axes, that of
\* the axis that limits it
UniformScale(nd, ld) ==
    /\ nd.width.i * ld.height = nd.height.i * ld.width
    /\ IF FrameW(ld) * ld.height <= FrameH(ld) * ld.width
       THEN nd.width.i = FrameW(ld) ELSE nd.height.i = FrameH(ld)

\* nd lies in the frame W x H, is centred in it and touches it on one axis,
\* each to within tol * 2^-68
FitsFrame(nd, W, H, tol) ==
    /\ Le([i |-> 0, f |-> 0 - tol], nd.x) /\ Le([i |-> 0, f |-> 0 - tol], nd.y)
    /\ Le(Plus(nd.x, nd.width), [i |-> W, f |-> tol])
    /\ Le(Plus(nd.y, nd.height), [i |-> H, f |-> tol])
    /\ Le(TwicePlus(nd.x, nd.width), [i |-> W, f |-> tol])
    /\ Le([i |-> W, f |-> 0 - tol], TwicePlus(nd.x, nd.width))
    /\ Le(TwicePlus(nd.y, nd.height), [i |-> H, f |-> tol])
    /\ Le([i |-> H, f |-> 0 - tol], TwicePlus(nd.y, nd.height))
    /\ \/ Le([i |-> W, f |-> 0 - tol], nd.width) /\ Le(nd.width, [i |-> W, f |-> tol])
       \/ Le([i |-> H, f |-> 0 - tol], nd.height) /\ Le(nd.height, [i |-> H, f |-> tol])

\* C24 (as amended): an image of natural size iw x ih that finishes decoding
\* for a frame W x H (612x792, swapped at 90 and 270) is placed unrotated
\* with the uniform scale min(W / iw, H / ih); it lies inside the frame, is
\* centred and touches the frame on one axis to within floating-point
\* rounding (2^-43), and a 1200x800 image on a 612x792 frame gets the scale
\* 0.51, x = 0, y = 192, width 612 and height 408 exactly.
C24_ImageFit ==
    \A k \in DOMAIN loads :
        LET ld == loads[k]
            nd == Placed(k)
        IN  /\ nd.kind = "image" /\ nd.rotation = 0
            /\ UniformScale(nd, ld)
            /\ FitsFrame(nd, FrameW(ld), FrameH(ld), RoundingTolerance)
            /\ (ld.width = 1200 /\ ld.height = 800 /\ ld.orientation = 0)
                 => /\ nd.x = D(0) /\ nd.y = D(192)
                    /\ nd.width = D(612) /\ nd.height = D(408)
                    /\ 100 * FrameW(ld) = 51 * ld.width

\* a 145x145 image has been placed on a page that was upright when addImg
\* was called: its width is 612 + 2^-43 and its x is -2^-44
C24_Witness ==
    \E n \in DOMAIN nodes :
        /\ nodes[n].kind = "image"
        /\ nodes[n].rotation = 0
        /\ nodes[n].width = [i |-> baseWidth, f |-> RoundingTolerance]
        /\ nodes[n].x = [i |-> 0, f |-> 0 - RoundingTolerance \div 2]
        /\ PageOf(S, n) >= 0

\* C24 as stated: the placed image lies entirely inside the frame, is
\* centred and touches the frame on one axis.
C24_AsStated ==
    \A k \in DOMAIN loads :
        /\ UniformScale(Placed(k), loads[k])
        /\ FitsFrame(Placed(k), FrameW(loads[k]), FrameH(loads[k]), 0)

\* what the host may call between addImg and the end of the decode
Meanwhile ==
    {addPage(S), nextPage(S), prevPage(S), rotateLeft(S), rotateRight(S),
     zoomIn(S), zoomOut(S), resetZoom(S)}
    \cup {goToPage(S, pageIndex) : pageIndex \in 0 .. Len(pages) - 1}
    \cup {zoom(S, factor) : factor \in ImageBounds.factors}

\* C25: addImg notes the page that is current and its orientation when it is
\* called; navigation, addPage, rotate and zoom leave the note alone; and
\* when the decode completes the image is added to the noted page, fitted to
\* the frame of the noted orientation, while the current page, the
\* orientations and the stage stay as they are.
C25_ImageKeepsItsPage ==
    /\ \A img \in FitSizes :
           LET t  == addImg(S, img)
               ld == t.loads[Len(t.loads)]
           IN  /\ Len(t.loads) = Len(loads) + 1
               /\ ld.layer = (IF currentPageIndex < 0 THEN 0 ELSE currentPageIndex)
               /\ ld.orientation = OrientationOf(t, ld.layer)
               /\ <<ld.width, ld.height>> = img
    /\ \A t \in Meanwhile : t.loads = loads
    /\ \A k \in DOMAIN loads :
           LET ld == loads[k]
               t  == onload(S, k)
               id == Len(nodes) + 1
           IN  /\ t.pages[ld.layer + 1].children
                      = Append(pages[ld.layer + 1].children, id)
               /\ \A p \in DOMAIN pages \ {ld.layer + 1} :
                      t.pages[p].children = pages[p].children
               /\ t.nodes = Append(nodes, FitImage(ld))
               /\ UniformScale(t.nodes[id], ld)
               /\ t.currentPageIndex = currentPageIndex
               /\ t.pageOrientations = pageOrientations
               /\ t.stage = stage
               /\ t.emitted = <<>>

\* a decode is pending for the first page, which has been turned since and
\* is no longer the current page
C25_Witness ==
    \E k \in DOMAIN loads :
        /\ loads[k].layer = 0
        /\ currentPageIndex = 1
        /\ loads[k].orientation = 0
        /\ pageOrientations[1] = 90

\* C26: when a decode fails the caller of addImg is handed the failure (a
\* promise settles with an error), no image is added to any page and no
\* page or shape changes.
C26_DecodeFailureReported ==
    \A k \in DOMAIN loads :
        LET t == onerror(Fresh, k)
        IN  /\ t.pages = pages
            /\ t.nodes = nodes
            /\ t.pageOrientations = pageOrientations
            /\ t.resolved # Unsettled
            /\ t.resolved[1].error

\* the values a call has emitted on one subject, in order
EmittedOn(t, subject) ==
    LET on == SelectSeq(t.emitted, LAMBDA m : m[1] = subject)
    IN  [k \in DOMAIN on |-> on[k][2]]

\* the call that led from S to t emitted every change of value last
Announced(t) ==
    /\ LET e == EmittedOn(t, "currentPageIndex$")
       IN  /\ t.currentPageIndex # currentPageIndex
                => e # <<>> /\ e[Len(e)] = t.currentPageIndex
           /\ t.currentPageIndexSubject
                = (IF e = <<>> THEN currentPageIndexSubject ELSE e[Len(e)])
    /\ LET e == EmittedOn(t, "pageCount$")
       IN  /\ Len(t.pages) # Len(pages) => e # <<>> /\ e[Len(e)] = Len(t.pages)
           /\ t.pageCountSubject = (IF e = <<>> THEN pageCountSubject ELSE e[Len(e)])

\* the calls that can move the current page or add a page
PageCalls ==
    {addPage(S), nextPage(S), prevPage(S), animationFrame(S)}
    \cup {goToPage(S, pageIndex) : pageIndex \in -1 .. Len(pages)}
    \cup {addImg(S, img) : img \in ImageSizes}
    \cup {toPngs(S, longEdge) : longEdge \in LongEdges}

\* C27: in every reachable state the value last emitted on currentPageIndex$
\* is the current page index and the value last emitted on pageCount$ is the
\* number of pages (-1 and 0 at the start), and every call that changes one
\* of the two emits the new value.
C27_SubjectsCurrent ==
    /\ currentPageIndexSubject = currentPageIndex
    /\ pageCountSubject = Len(pages)
    /\ \A t \in PageCalls : Announced(t)

\* an export of two pages is waiting at the second page and both subjects
\* hold the values it and addPage emitted
C27_Witness ==
    /\ Len(pages) = 2
    /\ exports # <<>>
    /\ exports[1].i = 1
    /\ currentPageIndexSubject = 1
    /\ pageCountSubject = 2

\* the pairs (old, new) a rotateRight and a rotateLeft hand to getAngleDelta
RightPairs == {<<o, rotateOrientationRight(o)>> : o \in Orientation}

LeftPairs == {<<o, rotateOrientationLeft(o)>> : o \in Orientation}

Geometry(nd) == <<nd.x, nd.y, nd.width, nd.height, nd.rotation>>

\* the call that led from S to t left every shape and every page's
\* orientation as it was
AnnotationsKept(t) ==
    /\ DOMAIN t.nodes = DOMAIN nodes
    /\ \A n \in DOMAIN nodes : Geometry(t.nodes[n]) = Geometry(nodes[n])
    /\ \A i \in DOMAIN pages : t.pageOrientations[i] = pageOrientations[i]

\* the presentation operations; animationFrame is the part of toPngs after
\* each of its awaits
PresentationCalls ==
    {zoomIn(S), zoomOut(S), resetZoom(S), nextPage(S), prevPage(S), addPage(S),
     animationFrame(S)}
    \cup {zoom(S, factor) : factor \in AllBounds.factors}
    \cup {goToPage(S, pageIndex) : pageIndex \in -1 .. Len(pages)}
    \cup {toPngs(S, longEdge) : longEdge \in LongEdges}

\* C29: zoom, zoomIn, zoomOut, resetZoom, goToPage, nextPage, prevPage,
\* addPage and toPngs (each of its steps) change no shape's x, y, width,
\* height or rotation and no page's orientation.
C29_PresentationKeepsAnnotations == \A t \in PresentationCalls : AnnotationsKept(t)

\* an export is showing the second page at a zoom other than 1 while the
\* first page is turned and holds a turned image and a turned rectangle
C29_Witness ==
    /\ Len(pages) = 2
    /\ pageOrientations[1] = 90
    /\ currentPageIndex = 1
    /\ currentZoom # ZoomOne
    /\ exports # <<>>
    /\ \E n, m \in Range(pages[1].children) :
           /\ nodes[n].kind = "image"
           /\ nodes[m].kind = "rect"
           /\ nodes[n].rotation = 90
           /\ nodes[m].rotation = 90

\* the call that led from S to t added delta to the rotation of every child
\* of the current page and no other shape's
RotationsShifted(t, delta) ==
    /\ DOMAIN t.nodes = DOMAIN nodes
    /\ \A n \in DOMAIN nodes :
           t.nodes[n].rotation
               = nodes[n].rotation
                 + (IF currentPageIndex >= 0 /\ PageOf(S, n) = currentPageIndex
                    THEN delta ELSE 0)

\* the angle by which page p was turned in the step: the delta of the rotate
\* that leads from its old orientation to its new one
TurnedBy(p) ==
    LET oldO == pageOrientations[p + 1]
        newO == pageOrientations'[p + 1]
    IN  IF newO = oldO THEN 0
        ELSE IF newO = rotateOrientationRight(oldO) THEN 90
        ELSE IF newO = rotateOrientationLeft(oldO) THEN -90
        ELSE 180

\* one step keeps every shape, adds to its rotation the angle its page was
\* turned by in the step (unless the step destroys the shape), and gives the
\* shapes it adds rotation 0
RotationFollowsTurns ==
    /\ \A n \in DOMAIN nodes :
           /\ n \in DOMAIN nodes'
           /\ \/ nodes'[n].kind = "destroyed"
              \/ nodes'[n].rotation
                     = nodes[n].rotation
                       + (IF PageOf(S, n) >= 0 THEN TurnedBy(PageOf(S, n)) ELSE 0)
    /\ \A n \in DOMAIN nodes' \ DOMAIN nodes : nodes'[n].rotation = 0

\* C30: rotateRight adds +90 and rotateLeft adds -90 to the rotation of every
\* child of the current page (the delta handed to the loop over the children
\* is +90 and -90 at every orientation the page can have), every step keeps a shape's rotation equal to what it was plus the delta of the
\* rotate applied to its page in that step, so that the rotation is the sum of
\* the deltas since the shape was added, and a rectangle begun by a mouse
\* down, on a turned page too, starts at rotation 0.
C30_RotationAccumulates ==
    /\ [](/\ RotationsShifted(rotateRight(S), 90)
          /\ RotationsShifted(rotateLeft(S), -90)
          /\ \A o \in Orientation :
                 /\ getAngleDelta(o, rotateOrientationRight(o)) = 90
                 /\ getAngleDelta(o, rotateOrientationLeft(o)) = -90
          /\ \A pos \in Pointers(TurnBounds) :
                 (isDrawing /\ currentPageIndex >= 0) =>
                     LET t == handleMouseDown(S, pos, Null)
                     IN  /\ Len(t.nodes) = Len(nodes) + 1
                         /\ t.nodes[Len(t.nodes)].rotation = 0
                         /\ RotationsShifted([t EXCEPT !.nodes = SubSeq(@, 1, Len(nodes))], 0))
    /\ [][RotationFollowsTurns]_vars

\* the page has been turned twice to the right; an image added before the
\* first turn is at rotation 180 and a rectangle drawn after it at rotation 90
C30_Witness ==
    /\ currentPageIndex = 0
    /\ pageOrientations[1] = 180
    /\ \E n, m \in Range(pages[1].children) :
           /\ nodes[n].kind = "image"
           /\ nodes[n].rotation = 180
           /\ nodes[m].kind = "rect"
           /\ nodes[m].rotation = 90

\* the call that led from S to t touched nothing but the orientation of the
\* current page, the geometry of its children and the stage
OnlyCurrentPageTurned(t) ==
    /\ Len(t.pages) = Len(pages)
    /\ \A k \in DOMAIN pages :
           /\ t.pages[k].children = pages[k].children
           /\ k # currentPageIndex + 1 =>
                  /\ t.pageOrientations[k] = pageOrientations[k]
                  /\ t.pages[k] = pages[k]
    /\ DOMAIN t.nodes = DOMAIN nodes
    /\ \A n \in DOMAIN nodes :
           /\ PageOf(S, n) # currentPageIndex => t.nodes[n] = nodes[n]
           /\ t.nodes[n].kind = nodes[n].kind
           /\ t.nodes[n].stroke = nodes[n].stroke
    /\ t.currentZoom = currentZoom
    /\ t.stage.scale = stage.scale
    /\ t.currentPageIndex = currentPageIndex
    /\ t.selectedRect = selectedRect
    /\ t.isDrawing = isDrawing
    /\ t.drawStartPos = drawStartPos
    /\ t.newRect = newRect
    /\ t.currentPageIndexSubject = currentPageIndexSubject
    /\ t.pageCountSubject = pageCountSubject
    /\ t.emitted = <<>>

\* C31: rotateLeft and rotateRight change the orientation and the child
\* geometry of the current page only: every other page's orientation and
\* children, the zoom factor, the current page index, the page count, the
\* selection and the draw state stay as they are, and with no pages the call
\* changes nothing at all.
C31_RotateTouchesCurrentPageOnly ==
    \A t \in {rotateLeft(S), rotateRight(S)} :
        /\ OnlyCurrentPageTurned(t)
        /\ Len(pages) = 0 => t = S
        /\ currentPageIndex >= 0 =>
               t.pageOrientations[currentPageIndex + 1]
                   # pageOrientations[currentPageIndex + 1]

\* the second page is current and has been turned with its child, while the
\* first page is upright and holds a selected rectangle at rotation 0
C31_Witness ==
    /\ Len(pages) = 2
    /\ currentPageIndex = 1
    /\ pageOrientations = <<0, 90>>
    /\ selectedRect # Null
    /\ PageOf(S, selectedRect) = 0
    /\ nodes[selectedRect].rotation = 0
    /\ \E n \in Range(pages[2].children) : nodes[n].rotation = 90

\* C32: in every reachable state the selected rectangle, if any, is a live
\* rectangle of the current page, so deleteRectangle removes a child of the
\* current page only and never a rectangle of a page that is not shown.
C32_DeleteOnCurrentPage ==
    /\ selectedRect # Null =>
           /\ nodes[selectedRect].kind = "rect"
           /\ PageOf(S, selectedRect) = currentPageIndex
    /\ \A k \in DOMAIN pages :
           k # currentPageIndex + 1 =>
               deleteRectangle(S).pages[k].children = pages[k].children

\* the layers that are shown
VisiblePages(s) == {k \in DOMAIN s.pages : s.pages[k].visible}

\* C33: in every reachable state with at least one page exactly one page
\* layer is visible and it is the layer of the current page, whatever
\* addPage, goToPage, nextPage, prevPage and toPngs were called; each of
\* these calls leads to such a state again.
C33_OnePageVisible ==
    /\ Len(pages) >= 1 => VisiblePages(S) = {currentPageIndex + 1}
    /\ \A t \in {addPage(S), nextPage(S), prevPage(S), animationFrame(S)}
                \cup {goToPage(S, pageIndex) : pageIndex \in -1 .. Len(pages)}
                \cup {toPngs(S, longEdge) : longEdge \in LongEdges} :
           Len(t.pages) >= 1 => VisiblePages(t) = {t.currentPageIndex + 1}

\* an export that was started on the second of two pages has gone back to
\* the first page: the first layer is shown and the second is hidden
C33_Witness ==
    /\ Len(pages) = 2
    /\ exports # <<>>
    /\ exports[1].i = 0
    /\ currentPageIndex = 0
    /\ pages[1].visible
    /\ ~pages[2].visible

\* C34: in every reachable state a rectangle has the red stroke exactly when
\* it is the selected rectangle and every other rectangle, on every page, has
\* the blue stroke, whatever draws, selection clicks, deletes and page
\* switches came before.
C34_HighlightConsistent ==
    \A n \in DOMAIN nodes :
        nodes[n].kind = "rect" =>
            nodes[n].stroke = (IF n = selectedRect THEN "red" ELSE "blue")

\* after a page switch the selected rectangle is red on the first page and
\* a rectangle drawn on the second page is blue
C34_Witness ==
    /\ Len(pages) = 2
    /\ currentPageIndex = 1
    /\ selectedRect # Null
    /\ PageOf(S, selectedRect) = 0
    /\ nodes[selectedRect].stroke = "red"
    /\ \E n \in Range(pages[2].children) :
           nodes[n].kind = "rect" /\ nodes[n].stroke = "blue"

\* C35: toPngs(n) with n > 0 on a document with at least one page, left alone
\* until it completes, leaves the last page current (index pageCount - 1)
\* whatever page was current before, shown at its own stage size, and leaves the
\* zoom, every page's orientation, every shape and the children of every page
\* as they were.
C35_ExportEndsOnLastPage ==
    (exports = <<>> /\ Len(pages) >= 1) =>
        \A longEdge \in {e \in LongEdges : e > 0} :
            LET t == Complete(toPngs(Fresh, longEdge))
            IN  /\ t.resolved # Unsettled
                /\ t.exports = <<>>
                /\ t.currentPageIndex = Len(pages) - 1
                /\ t.currentPageIndexSubject = Len(pages) - 1
                /\ VisiblePages(t) = {Len(pages)}
                /\ StageFits(t)
                /\ t.currentZoom = currentZoom
                /\ t.pageOrientations = pageOrientations
                /\ t.nodes = nodes
                /\ Len(t.pages) = Len(pages)
                /\ \A k \in DOMAIN pages : t.pages[k].children = pages[k].children

\* an export of two pages has just completed: the second page is current,
\* the first page is turned and holds a shape
C35_Witness ==
    /\ resolved # Unsettled
    /\ ~resolved[1].error
    /\ Len(resolved[1].pngs) = 2
    /\ exports = <<>>
    /\ currentPageIndex = 1
    /\ pageOrientations = <<90, 0>>
    /\ pages[1].children # <<>>

\* C36: the children of a page are z-ordered by the time they were added
\* (nodes are numbered in the order they are created and added): an image
\* whose decode completes is appended after, and so painted above, every
\* child its page already has, a rectangle begun by a pointer-down likewise,
\* and so a rectangle is above an image only when it was drawn after the
\* image's decode completed.
C36_ChildrenInOrderAdded ==
    /\ \A k \in DOMAIN pages :
           \A i, j \in DOMAIN pages[k].children :
               i < j => pages[k].children[i] < pages[k].children[j]
    /\ \A k \in DOMAIN loads :
           LET t == onload(S, k)
               p == loads[k].layer + 1
           IN  /\ t.pages[p].children = Append(pages[p].children, Len(nodes) + 1)
               /\ t.nodes[Len(nodes) + 1].kind = "image"
               /\ \A q \in DOMAIN pages \ {p} : t.pages[q] = pages[q]
    /\ (isDrawing /\ currentPageIndex >= 0) =>
           \A pos \in Pointers(Bounds), target \in Targets :
               LET t == handleMouseDown(S, pos, target)
                   p == currentPageIndex + 1
               IN  /\ t.pages[p].children = Append(pages[p].children, Len(nodes) + 1)
                   /\ t.nodes[Len(nodes) + 1].kind = "rect"
                   /\ \A q \in DOMAIN pages \ {p} : t.pages[q] = pages[q]

\* an image whose decode completed after a rectangle was drawn on its page
\* is the top child, above the rectangle
C36_Witness ==
    \E k \in DOMAIN pages :
        /\ Len(pages[k].children) = 2
        /\ nodes[pages[k].children[1]].kind = "rect"
        /\ nodes[pages[k].children[2]].kind = "image"

\* the images a list of files contributes before its first PDF
RECURSIVE ImagesUntilPdf(_)
ImagesUntilPdf(files) ==
    IF files = <<>> \/ Head(files) = "pdf" THEN 0
    ELSE (IF Head(files) = "image" THEN 1 ELSE 0) + ImagesUntilPdf(Tail(files))

HasPdf(files) == \E j \in DOMAIN files : files[j] = "pdf"

\* the image children of page k (counted from 1) and the decodes pending for it
ImagesOn(s, k) == {c \in Range(s.pages[k].children) : s.nodes[c].kind = "image"}
LoadsFor(s, k) == {j \in DOMAIN s.loads : s.loads[j].layer = k - 1}

\* the part of an upload that led from S to t added n pages, each new and
\* empty with one decode pending for it, touched no older page, shape or
\* decode, and, if the upload finished, left page 0 current
UploadedPagePerImage(t, n, finished) ==
    /\ Len(t.pages) = Len(pages) + n
    /\ Len(t.pageOrientations) = Len(t.pages)
    /\ Len(t.loads) = Len(loads) + n
    /\ \A j \in DOMAIN loads : t.loads[j] = loads[j]
    /\ \A j \in 1 .. n :
           /\ t.loads[Len(loads) + j].layer = Len(pages) + j - 1
           /\ t.pages[Len(pages) + j].children = <<>>
           /\ LoadsFor(t, Len(pages) + j) = {Len(loads) + j}
    /\ \A k \in DOMAIN pages :
           /\ t.pages[k].children = pages[k].children
           /\ LoadsFor(t, k) = LoadsFor(S, k)
    /\ t.nodes = nodes
    /\ (finished /\ Len(t.pages) >= 1) =>
           /\ t.currentPageIndex = 0
           /\ VisiblePages(t) = {1}
    /\ (finished /\ Len(t.pages) = 0) => t.currentPageIndex = -1

C38_GroupRotationNormalised ==
    /\ \A k \in DOMAIN groupEditor.pages :
           groupEditor.pages[k].rotation \in Orientation
    /\ groupEditor.currentPageIndex >= 0 =>
           LET pageData == groupEditor.pages[groupEditor.currentPageIndex + 1]
               odd      == Abs(pageData.rotation) % 180 = 90
           IN  /\ groupEditor.stage.width
                      = (IF odd THEN pageData.originalHeight ELSE pageData.originalWidth)
               /\ groupEditor.stage.height
                      = (IF odd THEN pageData.originalWidth ELSE pageData.originalHeight)

=============================================================================
